---- MODULE Spec2Model ----
(***************************************************************************)
(* rfscopedb.data_model: the Scan aggregate (ingestion of cavity waveforms *)
(* and scan metadata, the transactional insert_data) and the Query         *)
(* (stage / get_scan_count / run), as state machines.                      *)
(*                                                                         *)
(* Python dicts are modelled as sequences of <<key, value>> pairs with     *)
(* distinct keys, which keeps their insertion order (the iteration order   *)
(* of `for k in d`).  An Optional value is <<>> (None) or <<v>>.           *)
(***************************************************************************)
EXTENDS Integers, Sequences, FiniteSets, TLC

VARIABLES
    \* ---- Scan (data_model.py 35-67)
    id, waveform_data, sampling_rate, analysis_scalar, analysis_array,
    scan_data_float, scan_data_str,
    \* ---- outcome of the last completed Scan call: [op, exc]
    ret,
    \* ---- arguments of the last add_cavity_data call: <<cavity, data, rate>>
    added,
    \* ---- one insert_data call: position, locals, statements issued
    pc, cursor, sid, wid, todo, exc, log, calls,
    \* ---- the database behind the connection
    pending, committed, next_sid, next_wid, last_insert_id,
    \* ---- Query (data_model.py 315-326) and the calls it made on db
    signal_names, array_names, wf_metric_names,
    staged, scan_meta, wf_data, wf_meta, qret, issued, fetched,
    \* ---- one call of Scan.analyze_signal: arguments [arr, rate], result
    sig_in, sig_out,
    \* ---- one call of Query.get_frequency_range: arguments [fs, n_samples],
    \* ---- result
    freq_in, freq_out

scan_vars == <<id, waveform_data, sampling_rate, analysis_scalar, analysis_array,
               scan_data_float, scan_data_str, ret, added>>
call_vars == <<pc, cursor, sid, wid, todo, exc, log, calls>>
db_vars == <<pending, committed, next_sid, next_wid, last_insert_id>>
query_vars == <<signal_names, array_names, wf_metric_names,
                staged, scan_meta, wf_data, wf_meta, qret, issued, fetched>>
pure_vars == <<sig_in, sig_out, freq_in, freq_out>>
vars == <<scan_vars, call_vars, db_vars, query_vars, pure_vars>>

----------------------------------------------------------------------------
\* Optional values and dicts

None == <<>>
Some(v) == <<v>>

Range(s) == {s[i] : i \in DOMAIN s}

\* the keys of a dict, in iteration order
KeySeq(d) == [i \in DOMAIN d |-> d[i][1]]
Keys(d) == {d[i][1] : i \in DOMAIN d}
Has(d, k) == k \in Keys(d)
\* d[k]; a missing key is a KeyError, which the callers test with Has first
Get(d, k) == d[CHOOSE i \in DOMAIN d : d[i][1] = k][2]
\* d[k] = v: an existing key keeps its position, a new key goes last
Put(d, k, v) ==
    IF Has(d, k)
    THEN [i \in DOMAIN d |-> IF d[i][1] = k THEN <<k, v>> ELSE d[i]]
    ELSE Append(d, <<k, v>>)
\* d.update(e)
RECURSIVE Update(_, _)
Update(d, e) ==
    IF e = <<>> THEN d ELSE Update(Put(d, e[1][1], e[1][2]), Tail(e))

\* every dict over the keys K and the values V with at most n entries
IsDict(s) == \A i, j \in DOMAIN s : i # j => s[i][1] # s[j][1]
Dicts(K, V, n) ==
    {s \in UNION {[1..m -> K \X V] : m \in 0..n} : IsDict(s)}

----------------------------------------------------------------------------
\* Waveform arrays.  An array is [type, dtype, fn, fs, runs]: the Python type of
\* the container, whether its elements are numbers, and its samples in
\* run-length form <<value, count>>; fn = "periodogram" marks the spectral
\* density of the samples at the sampling rate fs, which the model does not
\* evaluate.

RECURSIVE RunsLen(_)
RunsLen(runs) == IF runs = <<>> THEN 0 ELSE runs[1][2] + RunsLen(Tail(runs))

ArrLen(arr) ==
    IF arr.fn = "periodogram" THEN RunsLen(arr.runs) \div 2 + 1 ELSE RunsLen(arr.runs)

SampleLength == 8192

Metrics == <<"minimum", "maximum", "peak_to_peak", "mean", "median",
             "standard_deviation", "rms", "25th_quartile", "75th_quartile",
             "dominant_frequency">>

NpMin(arr) == CHOOSE v \in {r[1] : r \in Range(arr.runs)} :
                 \A r \in Range(arr.runs) : v <= r[1]
NpMax(arr) == CHOOSE v \in {r[1] : r \in Range(arr.runs)} :
                 \A r \in Range(arr.runs) : v >= r[1]

\* A scalar metric: an exact integer, or a real number the model leaves
\* unevaluated (of the samples `of`).
Exact(n) == [kind |-> "int", n |-> n, of |-> <<>>, fs |-> 0]
Real(name, arr) == [kind |-> name, n |-> 0, of |-> arr.runs, fs |-> 0]
\* f[np.argmax(pxx_den)], which depends on the sampling rate as well
DominantFrequency(arr, rate) ==
    [kind |-> "dominant_frequency", n |-> 0, of |-> arr.runs, fs |-> rate]

\* periodogram(arr, sampling_rate)[1]
Periodogram(arr, rate) ==
    [type |-> "ndarray", dtype |-> "number", fn |-> "periodogram", fs |-> rate,
     runs |-> arr.runs]

\* the checks of analyze_signal without the one on the length
AnalyzeErrorAnyLength(arr) ==
    IF arr.type \notin {"list", "ndarray", "tuple"} THEN "TypeError"
    ELSE IF arr.dtype # "number" THEN "ValueError"
    ELSE "None"

\* the exception analyze_signal raises on arr, "None" when it accepts it
AnalyzeError(arr) ==
    IF arr.type \notin {"list", "ndarray", "tuple"} THEN "TypeError"
    ELSE IF arr.dtype # "number" THEN "ValueError"
    ELSE IF ArrLen(arr) # SampleLength THEN "ValueError"
    ELSE "None"

Scalars(arr, rate) ==
    [i \in DOMAIN Metrics |->
        <<Metrics[i],
          CASE Metrics[i] = "minimum" -> Exact(NpMin(arr))
            [] Metrics[i] = "maximum" -> Exact(NpMax(arr))
            [] Metrics[i] = "peak_to_peak" -> Exact(NpMax(arr) - NpMin(arr))
            [] Metrics[i] = "dominant_frequency" -> DominantFrequency(arr, rate)
            [] OTHER -> Real(Metrics[i], arr)>>]

Arrays(arr, rate) == << <<"power_spectrum", Periodogram(arr, rate)>> >>

\* analyze_signal(arr, sampling_rate): [exc, scalars, arrays]
analyze_signal(arr, rate) ==
    IF AnalyzeError(arr) # "None"
    THEN [exc |-> AnalyzeError(arr), scalars |-> <<>>, arrays |-> <<>>]
    ELSE [exc |-> "None", scalars |-> Scalars(arr, rate), arrays |-> Arrays(arr, rate)]

----------------------------------------------------------------------------
\* Inputs

Cavities == {"c1", "c2"}
Signals == {"Time", "GMES", "PMES"}
Rates == {5000, 10000}
MaxSignals == 2

NdArray(runs) ==
    [type |-> "ndarray", dtype |-> "number", fn |-> "input", fs |-> 0, runs |-> runs]
Wave == NdArray(<< <<0, 4096>>, <<3, 4096>> >>)
Short == NdArray(<< <<1, 100>> >>)
WaveList == [type |-> "list", dtype |-> "number", fn |-> "input", fs |-> 0,
             runs |-> << <<2, 8192>> >>]

\* the sample-time axis that comes with the signals of a cavity
TimeAxis == NdArray(<< <<0, 8192>> >>)

\* every data dict of at most MaxSignals signals: "Time" is the time axis
\* and, when present, the first key (the loop of lines 97-107 skips it
\* wherever it stands); every other signal has an array of A
DataDicts(A) ==
    {d \in Dicts(Signals, A \cup {TimeAxis}, MaxSignals) :
        \A i \in DOMAIN d :
            /\ (d[i][1] = "Time") <=> (d[i][2] = TimeAxis)
            /\ (d[i][1] = "Time") => (i = 1)}

MetaKeys == {"A", "B"}
FloatValues == {1, 2}
StrValues == {"x", "y"}
FloatDicts == Dicts(MetaKeys, FloatValues, Cardinality(MetaKeys))
StrDicts == Dicts(MetaKeys, StrValues, Cardinality(MetaKeys))

----------------------------------------------------------------------------
\* Scan.__init__ and the state around it

ScanInit ==
    /\ id = None
    /\ waveform_data = <<>>
    /\ sampling_rate = <<>>
    /\ analysis_scalar = <<>>
    /\ analysis_array = <<>>
    /\ scan_data_float = <<>>
    /\ scan_data_str = <<>>
    /\ ret = [op |-> "__init__", exc |-> "None"]
    /\ added = <<>>

CallInit ==
    /\ pc = "idle"
    /\ cursor = "none"
    /\ sid = 0
    /\ wid = 0
    /\ todo = <<>>
    /\ exc = "None"
    /\ log = <<>>
    /\ calls = 0

----------------------------------------------------------------------------
\* Scan.add_scan_data

\* no check of the incoming pair
DuplicateKeyIgnored(float_data, str_data) == FALSE

\* the loop of lines 77-79: some key of float_data is a key of str_data
DuplicateKey(float_data, str_data) ==
    \E k \in Keys(float_data) : k \in Keys(str_data)

add_scan_data(float_data, str_data) ==
    /\ pc = "idle"
    /\ IF DuplicateKey(float_data, str_data)
       THEN /\ ret' = [op |-> "add_scan_data", exc |-> "ValueError"]
            /\ UNCHANGED <<scan_data_float, scan_data_str>>
       ELSE /\ scan_data_float' = Update(scan_data_float, float_data)
            /\ scan_data_str' = Update(scan_data_str, str_data)
            /\ ret' = [op |-> "add_scan_data", exc |-> "None"]
    /\ UNCHANGED <<id, waveform_data, sampling_rate, analysis_scalar, analysis_array,
                   added>>
    /\ UNCHANGED <<call_vars, db_vars, query_vars, pure_vars>>

----------------------------------------------------------------------------
\* Scan.add_cavity_data

\* the index of the first signal of data whose analysis raises, Len + 1 if none
FirstBad(data, rate) ==
    LET bad == {i \in DOMAIN data :
                   data[i][1] # "Time" /\ AnalyzeError(data[i][2]) # "None"}
    IN IF bad = {} THEN Len(data) + 1
       ELSE CHOOSE i \in bad : \A j \in bad : i <= j

\* the signals the loop of lines 97-107 reaches and analyzes: those before
\* the first raise, "Time" skipped
Analyzed(data, rate) ==
    SelectSeq(SubSeq(data, 1, FirstBad(data, rate) - 1), LAMBDA p : p[1] # "Time")

CavityScalars(data, rate) ==
    LET a == Analyzed(data, rate)
    IN [i \in DOMAIN a |-> <<a[i][1], Scalars(a[i][2], rate)>>]

CavityArrays(data, rate) ==
    LET a == Analyzed(data, rate)
    IN [i \in DOMAIN a |-> <<a[i][1], Update(<<>>, Arrays(a[i][2], rate))>>]

\* the new entry of a cavity added to the one already there
MergeCavity(d, cavity, v) ==
    Put(d, cavity, IF Has(d, cavity) THEN Update(Get(d, cavity), v) ELSE v)

\* lines 92-94: d[cavity] = v, whatever d held for the cavity
StoreCavity(d, cavity, v) == Put(d, cavity, v)

add_cavity_data(cavity, data, rate) ==
    /\ pc = "idle"
    /\ waveform_data' = StoreCavity(waveform_data, cavity, data)
    /\ analysis_scalar' = StoreCavity(analysis_scalar, cavity, CavityScalars(data, rate))
    /\ analysis_array' = StoreCavity(analysis_array, cavity, CavityArrays(data, rate))
    /\ sampling_rate' = Put(sampling_rate, cavity, rate)
    /\ ret' = [op |-> "add_cavity_data",
               exc |-> IF FirstBad(data, rate) <= Len(data)
                       THEN AnalyzeError(data[FirstBad(data, rate)][2])
                       ELSE "None"]
    /\ added' = <<cavity, data, rate>>
    /\ UNCHANGED <<id, scan_data_float, scan_data_str>>
    /\ UNCHANGED <<call_vars, db_vars, query_vars, pure_vars>>

----------------------------------------------------------------------------
\* The database: six tables of rows, those of the open transaction (pending)
\* and those committed.  scan and waveform generate their keys.

Tables == {"scan", "waveform", "waveform_adata", "waveform_sdata",
           "scan_fdata", "scan_sdata"}
EmptyDb == [t \in Tables |-> {}]

\* json.dumps(arr.tolist()): the samples as JSON text, the container dropped
ToJson(arr) == [json |-> arr.fn, fs |-> arr.fs, runs |-> arr.runs]

\* one entry of the connection's call log
Stmt(op, table, n, ok) == [op |-> op, table |-> table, n |-> n, ok |-> ok]

----------------------------------------------------------------------------
\* Scan.insert_data, one action per statement.  Every statement sent to the
\* connection may fail (ok = FALSE): the exception is kept in exc and control
\* goes to the except clause.

MaxInserts == 2

\* the (cavity, signal) pairs of the loops of lines 128-131, "Time" skipped
RECURSIVE Waveforms(_)
Waveforms(wd) ==
    IF wd = <<>> THEN <<>>
    ELSE LET cav == wd[1][1]
             sigs == SelectSeq(KeySeq(wd[1][2]), LAMBDA g : g # "Time")
         IN [i \in DOMAIN sigs |-> <<cav, sigs[i]>>] \o Waveforms(Tail(wd))

\* a loop that stops after its first waveform
AfterFirstWaveform(rest) == "scan_fdata"

\* where the loop goes after a waveform (or the scan row) is done
AfterWaveform(rest) == IF rest = <<>> THEN "scan_fdata" ELSE "waveform"

Raise(e) ==
    /\ exc' = e
    /\ pc' = "except"

\* lines 119-121: try: cursor = conn.cursor()
insert_data_begin ==
    /\ pc = "idle"
    /\ calls < MaxInserts
    /\ calls' = calls + 1
    /\ \E ok \in BOOLEAN :
        /\ log' = <<Stmt("cursor", "", 0, ok)>>
        /\ IF ok THEN /\ cursor' = "open"
                      /\ pc' = "scan"
                      /\ exc' = "None"
                 ELSE /\ cursor' = "none"
                      /\ Raise("Error:cursor")
    /\ sid' = 0
    /\ wid' = 0
    /\ todo' = <<>>
    /\ UNCHANGED <<scan_vars, db_vars, query_vars, pure_vars>>

\* lines 123-126: the scan row and its generated id
insert_scan ==
    /\ pc = "scan"
    /\ \E r \in {"ok", "insert_fails", "select_fails"} :
        /\ IF r = "insert_fails"
           THEN /\ log' = Append(log, Stmt("insert", "scan", 1, FALSE))
                /\ UNCHANGED <<pending, next_sid, last_insert_id>>
           ELSE /\ pending' = [pending EXCEPT !.scan = @ \cup {[sid |-> next_sid]}]
                /\ next_sid' = next_sid + 1
                /\ last_insert_id' = next_sid
                /\ log' = log \o <<Stmt("insert", "scan", 1, TRUE),
                                   Stmt("select", "", 0, r = "ok")>>
        /\ IF r = "ok"
           THEN /\ sid' = next_sid
                /\ todo' = Waveforms(waveform_data)
                /\ pc' = AfterWaveform(Waveforms(waveform_data))
                /\ UNCHANGED exc
           ELSE /\ Raise(IF r = "insert_fails" THEN "Error:scan" ELSE "Error:select")
                /\ UNCHANGED <<sid, todo>>
    /\ UNCHANGED <<wid, cursor, calls, committed, next_wid>>
    /\ UNCHANGED <<scan_vars, query_vars, pure_vars>>

\* the row of _insert_waveform, line 153-154
WaveformRow(w, s, cav, signal_name) ==
    [wid |-> w, sid |-> s, cavity |-> cav, signal_name |-> signal_name,
     sample_rate_hz |-> Get(sampling_rate, cav)]

\* line 132: wid = self._insert_waveform(cursor, sid, cav, signal_name)
insert_waveform ==
    /\ pc = "waveform"
    /\ LET cav == todo[1][1]
           signal_name == todo[1][2]
       IN \E r \in {"ok", "insert_fails", "select_fails"} :
        /\ IF r = "insert_fails"
           THEN /\ log' = Append(log, Stmt("insert", "waveform", 1, FALSE))
                /\ UNCHANGED <<pending, next_wid, last_insert_id>>
           ELSE /\ pending' = [pending EXCEPT !.waveform =
                                  @ \cup {WaveformRow(next_wid, sid, cav, signal_name)}]
                /\ next_wid' = next_wid + 1
                /\ last_insert_id' = next_wid
                /\ log' = log \o <<Stmt("insert", "waveform", 1, TRUE),
                                   Stmt("select", "", 0, r = "ok")>>
        /\ IF r = "ok"
           THEN /\ wid' = next_wid
                /\ pc' = "waveform_adata"
                /\ UNCHANGED exc
           ELSE /\ Raise(IF r = "insert_fails" THEN "Error:waveform" ELSE "Error:select")
                /\ UNCHANGED wid
    /\ UNCHANGED <<sid, todo, cursor, calls, committed, next_sid>>
    /\ UNCHANGED <<scan_vars, query_vars, pure_vars>>

\* the exception lines 168-171 raise before any statement is sent: a raw
\* waveform that is no ndarray has no tolist(); a signal without analysis
\* results is a missing key
AdataError(cav, signal_name) ==
    IF Get(Get(waveform_data, cav), signal_name).type # "ndarray" THEN "AttributeError"
    ELSE IF ~Has(Get(analysis_array, cav), signal_name) THEN "KeyError"
    ELSE "None"

\* array_data without its "raw" row
ArrayDataNoRaw(w, cav, signal_name) ==
    LET derived == Get(Get(analysis_array, cav), signal_name)
    IN [i \in DOMAIN derived |->
           [wid |-> w, name |-> derived[i][1], data |-> ToJson(derived[i][2])]]

\* array_data of lines 168-171
ArrayData(w, cav, signal_name) ==
    LET derived == Get(Get(analysis_array, cav), signal_name)
    IN <<[wid |-> w, name |-> "raw",
          data |-> ToJson(Get(Get(waveform_data, cav), signal_name))]>>
       \o [i \in DOMAIN derived |->
              [wid |-> w, name |-> derived[i][1], data |-> ToJson(derived[i][2])]]

\* line 133: self._insert_waveform_adata(cursor, wid, cav, signal_name)
insert_waveform_adata ==
    /\ pc = "waveform_adata"
    /\ LET cav == todo[1][1]
           signal_name == todo[1][2]
       IN IF AdataError(cav, signal_name) # "None"
          THEN /\ Raise(AdataError(cav, signal_name))
               /\ UNCHANGED <<log, pending>>
          ELSE \E ok \in BOOLEAN :
                /\ log' = Append(log, Stmt("insert", "waveform_adata",
                                           Len(ArrayData(wid, cav, signal_name)), ok))
                /\ IF ok
                   THEN /\ pending' = [pending EXCEPT !.waveform_adata =
                                         @ \cup Range(ArrayData(wid, cav, signal_name))]
                        /\ pc' = "waveform_sdata"
                        /\ UNCHANGED exc
                   ELSE /\ Raise("Error:waveform_adata")
                        /\ UNCHANGED pending
    /\ UNCHANGED <<sid, wid, todo, cursor, calls>>
    /\ UNCHANGED <<committed, next_sid, next_wid, last_insert_id>>
    /\ UNCHANGED <<scan_vars, query_vars, pure_vars>>

\* data of lines 186-188
ScalarData(w, cav, signal_name) ==
    LET scalars == Get(Get(analysis_scalar, cav), signal_name)
    IN [i \in DOMAIN scalars |->
           [wid |-> w, name |-> scalars[i][1], value |-> scalars[i][2]]]

\* line 134: self._insert_waveform_sdata(cursor, wid, cav, signal_name)
insert_waveform_sdata ==
    /\ pc = "waveform_sdata"
    /\ LET cav == todo[1][1]
           signal_name == todo[1][2]
       IN IF ~Has(Get(analysis_scalar, cav), signal_name)
          THEN /\ Raise("KeyError")
               /\ UNCHANGED <<log, pending, todo>>
          ELSE \E ok \in BOOLEAN :
                /\ log' = Append(log, Stmt("insert", "waveform_sdata",
                                           Len(ScalarData(wid, cav, signal_name)), ok))
                /\ IF ok
                   THEN /\ pending' = [pending EXCEPT !.waveform_sdata =
                                         @ \cup Range(ScalarData(wid, cav, signal_name))]
                        /\ todo' = Tail(todo)
                        /\ pc' = AfterWaveform(Tail(todo))
                        /\ UNCHANGED exc
                   ELSE /\ Raise("Error:waveform_sdata")
                        /\ UNCHANGED <<pending, todo>>
    /\ UNCHANGED <<sid, wid, cursor, calls>>
    /\ UNCHANGED <<committed, next_sid, next_wid, last_insert_id>>
    /\ UNCHANGED <<scan_vars, query_vars, pure_vars>>

\* data of lines 198-200 and 212-214
ScanData(s, d) == [i \in DOMAIN d |-> [sid |-> s, name |-> d[i][1], value |-> d[i][2]]]

\* the statement sent whatever data holds
SendsAlways(data) == TRUE

\* whether _insert_scan_fdata / _insert_scan_sdata send their statement
\* (lines 202 and 215)
SendsScanData(data) == Len(data) > 0

\* _insert_scan_fdata and _insert_scan_sdata: the rows of the dict d into
\* table, then on to pc value next
InsertScanData(table, d, next) ==
    IF ~SendsScanData(ScanData(sid, d))
    THEN /\ pc' = next
         /\ UNCHANGED <<log, pending, exc>>
    ELSE \E ok \in BOOLEAN :
          /\ log' = Append(log, Stmt("insert", table, Len(ScanData(sid, d)), ok))
          /\ IF ok
             THEN /\ pending' = [pending EXCEPT ![table] = @ \cup Range(ScanData(sid, d))]
                  /\ pc' = next
                  /\ UNCHANGED exc
             ELSE /\ Raise("Error:" \o table)
                  /\ UNCHANGED pending

\* line 136
insert_scan_fdata ==
    /\ pc = "scan_fdata"
    /\ InsertScanData("scan_fdata", scan_data_float, "scan_sdata")
    /\ UNCHANGED <<sid, wid, todo, cursor, calls>>
    /\ UNCHANGED <<committed, next_sid, next_wid, last_insert_id>>
    /\ UNCHANGED <<scan_vars, query_vars, pure_vars>>

\* line 137
insert_scan_sdata ==
    /\ pc = "scan_sdata"
    /\ InsertScanData("scan_sdata", scan_data_str, "commit")
    /\ UNCHANGED <<sid, wid, todo, cursor, calls>>
    /\ UNCHANGED <<committed, next_sid, next_wid, last_insert_id>>
    /\ UNCHANGED <<scan_vars, query_vars, pure_vars>>

\* conn.commit(): the rows of the transaction become committed
Commit(db, tx) == [t \in Tables |-> db[t] \cup tx[t]]

\* the id set from the generated scan id
IdAssigned(old, generated) == Some(generated)

\* the Scan's id when insert_data returns: the method assigns nothing to it
IdAfterInsert(old, generated) == old

\* line 141, and the return of insert_data
insert_commit ==
    /\ pc = "commit"
    /\ \E ok \in BOOLEAN :
        /\ log' = Append(log, Stmt("commit", "", 0, ok))
        /\ IF ok
           THEN /\ committed' = Commit(committed, pending)
                /\ pending' = EmptyDb
                /\ pc' = "idle"
                /\ id' = IdAfterInsert(id, sid)
                /\ ret' = [op |-> "insert_data", exc |-> "None"]
                /\ UNCHANGED exc
           ELSE /\ Raise("Error:commit")
                /\ UNCHANGED <<committed, pending, id, ret>>
    /\ UNCHANGED <<sid, wid, todo, cursor, calls, next_sid, next_wid, last_insert_id>>
    /\ UNCHANGED <<waveform_data, sampling_rate, analysis_scalar, analysis_array,
                   scan_data_float, scan_data_str, added>>
    /\ UNCHANGED <<query_vars, pure_vars>>

\* a rollback that drops nothing
RollbackNothing(tx) == tx

\* a rollback that keeps the scan row
RollbackKeepsScan(tx) == [tx EXCEPT !.waveform = {}, !.waveform_adata = {},
                             !.waveform_sdata = {}, !.scan_fdata = {}, !.scan_sdata = {}]

\* conn.rollback(): the rows of the transaction are dropped
Rollback(tx) == EmptyDb

\* an error replaced by another on its way out
Wrapped(e) == "Error:wrapped"

\* line 149, raise e: the exception caught at line 142 goes on as it is
Reraise(e) == e

\* lines 142-149: roll back, close the cursor, re-raise
insert_except ==
    /\ pc = "except"
    /\ pending' = Rollback(pending)
    /\ log' = log \o <<Stmt("rollback", "", 0, TRUE)>>
                  \o (IF cursor # "none" THEN <<Stmt("close", "", 0, TRUE)>> ELSE <<>>)
    /\ cursor' = IF cursor # "none" THEN "closed" ELSE cursor
    /\ ret' = [op |-> "insert_data", exc |-> Reraise(exc)]
    /\ pc' = "idle"
    /\ UNCHANGED <<sid, wid, todo, exc, calls>>
    /\ UNCHANGED <<committed, next_sid, next_wid, last_insert_id>>
    /\ UNCHANGED <<id, waveform_data, sampling_rate, analysis_scalar, analysis_array,
                   scan_data_float, scan_data_str, added>>
    /\ UNCHANGED <<query_vars, pure_vars>>

----------------------------------------------------------------------------
\* The rest of the state, for the specifications that leave it alone

DbInit ==
    /\ pending = EmptyDb
    /\ committed = EmptyDb
    /\ next_sid = 1
    /\ next_wid = 1
    /\ last_insert_id = 0

\* Query.__init__ (lines 315-326) with the arguments sn, an, mn
QueryInit(sn, an, mn) ==
    /\ signal_names = sn
    /\ array_names = an
    /\ wf_metric_names = mn
    /\ staged = FALSE
    /\ scan_meta = None
    /\ wf_data = None
    /\ wf_meta = None
    /\ qret = [op |-> "__init__", exc |-> "None", value |-> 0]
    /\ issued = <<>>
    /\ fetched = [data |-> None, meta |-> None]

\* the arguments of an analyze_signal call not made yet
AnalyzeInit(arr, rate) ==
    /\ sig_in = [arr |-> arr, rate |-> rate]
    /\ sig_out = None

\* the arguments of a get_frequency_range call not made yet
FrequencyInit(fs, n_samples) ==
    /\ freq_in = [fs |-> fs, n_samples |-> n_samples]
    /\ freq_out = None

Init ==
    /\ ScanInit /\ CallInit /\ DbInit
    /\ QueryInit(<<"GMES">>, None, None)
    /\ AnalyzeInit(Wave, 5000)
    /\ FrequencyInit(5000, SampleLength)

\* ---- add_scan_data alone, over every pair of metadata dicts
MetaNext ==
    \E f \in FloatDicts, s \in StrDicts : add_scan_data(f, s)

MetaSpec == Init /\ [][MetaNext]_vars

\* ---- add_cavity_data alone, over every data dict of valid and invalid arrays
CavityData == DataDicts({Wave, Short})

CavityNext ==
    \E c \in Cavities, d \in CavityData, r \in Rates :
        add_cavity_data(c, d, r)

CavitySpec == Init /\ [][CavityNext]_vars
----------------------------------------------------------------------------
\* Scan.analyze_signal alone, over inputs of every kind

\* what a caller may pass as arr: sequences and arrays, and a str and a set
ArgTypes == {"list", "ndarray", "tuple", "str", "set"}
\* the element type np.array finds: numbers, or strings if one element is one
DTypes == {"number", "str"}
SampleValues == {-1, 0, 3}
RunLengths == {100, 4096, 4097, 8192}
\* one or two runs of equal samples: lengths 100 to 16384, among them 8192
\* (in one run and in two) and 8193
SampleRuns ==
    { <<r>> : r \in SampleValues \X RunLengths }
    \cup { <<r, q>> : r \in SampleValues \X RunLengths,
                      q \in SampleValues \X RunLengths }
AnalyzeInputs ==
    {[type |-> t, dtype |-> e, fn |-> "input", fs |-> 0, runs |-> r] :
        t \in ArgTypes, e \in DTypes, r \in SampleRuns}

\* lines 218-267, one call
call_analyze_signal ==
    /\ sig_out = None
    /\ sig_out' = Some(analyze_signal(sig_in.arr, sig_in.rate))
    /\ UNCHANGED <<sig_in, freq_in, freq_out>>
    /\ UNCHANGED <<scan_vars, call_vars, db_vars, query_vars>>

AnalyzeStart ==
    /\ ScanInit /\ CallInit /\ DbInit
    /\ QueryInit(<<"GMES">>, None, None)
    /\ FrequencyInit(5000, SampleLength)
    /\ \E a \in AnalyzeInputs, r \in Rates : AnalyzeInit(a, r)

AnalyzeSpec == AnalyzeStart /\ [][call_analyze_signal]_vars

----------------------------------------------------------------------------
\* Query.get_frequency_range alone.  The floats i * float(fs) / n_samples are
\* kept as exact fractions <<numerator, denominator>> = <<i * fs, n_samples>>.

MaxSamples == 40
SampleCounts == (1..MaxSamples) \cup {SampleLength}
SampleRates == Rates \cup {1}

\* the range of line 367 without the + 1
FrequenciesBelowNyquist(fs, n_samples) ==
    [k \in 1..(n_samples \div 2) |-> <<(k - 1) * fs, n_samples>>]

\* line 367: [i * float(fs) / n_samples for i in range(int(n_samples / 2) + 1)],
\* for n_samples > 0, where int(n_samples / 2) is n_samples \div 2
get_frequency_range(fs, n_samples) ==
    [k \in 1..(n_samples \div 2 + 1) |-> <<(k - 1) * fs, n_samples>>]

call_get_frequency_range ==
    /\ freq_out = None
    /\ freq_out' = Some(get_frequency_range(freq_in.fs, freq_in.n_samples))
    /\ UNCHANGED <<sig_in, sig_out, freq_in>>
    /\ UNCHANGED <<scan_vars, call_vars, db_vars, query_vars>>

FrequencyStart ==
    /\ ScanInit /\ CallInit /\ DbInit
    /\ QueryInit(<<"GMES">>, None, None)
    /\ AnalyzeInit(Wave, 5000)
    /\ \E fs \in SampleRates, n \in SampleCounts : FrequencyInit(fs, n)

FrequencySpec == FrequencyStart /\ [][call_get_frequency_range]_vars

----------------------------------------------------------------------------
\* Query.  The WaveformDB behind it is known by its interface only: each of
\* its three queries returns a list of row dicts or raises.

MaxScans == 2
ScanIds == 1..MaxScans

\* what query_scan_rows may return: the rows of any scans, each scan once
ScanRowLists ==
    {r \in UNION {[1..m -> [sid : ScanIds]] : m \in 0..MaxScans} :
        \A i, j \in DOMAIN r : i # j => r[i].sid # r[j].sid}

\* what a bulk query for the scans sids may return: rows of the first few
\* of them (a scan may have no waveform stored)
WaveformRowLists(sids) ==
    {[i \in 1..n |-> [sid |-> sids[i]]] : n \in 0..Len(sids)}

\* pd.DataFrame(rows): the columns are the keys of the row dicts, so a frame
\* of no rows has no column
DataFrame(rows) ==
    [columns |-> IF rows = <<>> THEN {} ELSE {"sid"}, rows |-> rows]

\* self.scan_meta.sid.values.tolist()
SidList(frame) == [i \in DOMAIN frame.rows |-> frame.rows[i].sid]

\* one call on db: its arguments and the rows it returned (none if it raised)
DbCall(fn, sids, signals, names, rows) ==
    [fn |-> fn, sids |-> sids, signal_names |-> signals, names |-> names,
     rows |-> rows]

\* a stage() that does not store what it got
StagedMetaUnset(old, scan_rows) == old

\* a stage() that keeps metadata it already has
StagedMetaKept(old, scan_rows) ==
    IF old = None THEN Some(DataFrame(scan_rows)) ELSE old

\* line 332: the staged metadata after a stage() that got scan_rows
StagedMeta(old, scan_rows) == Some(DataFrame(scan_rows))

\* Query.stage
stage ==
    \/ \* query_scan_rows raises
       /\ qret' = [op |-> "stage", exc |-> "Error:query_scan_rows", value |-> 0]
       /\ issued' = <<DbCall("query_scan_rows", <<>>, <<>>, None, <<>>)>>
       /\ UNCHANGED <<staged, scan_meta>>
       /\ UNCHANGED <<signal_names, array_names, wf_metric_names, wf_data, wf_meta, fetched>>
       /\ UNCHANGED <<scan_vars, call_vars, db_vars, pure_vars>>
    \/ \E scan_rows \in ScanRowLists :
       /\ scan_meta' = StagedMeta(scan_meta, scan_rows)
       /\ staged' = TRUE
       /\ qret' = [op |-> "stage", exc |-> "None", value |-> 0]
       /\ issued' = <<DbCall("query_scan_rows", <<>>, <<>>, None, scan_rows)>>
       /\ UNCHANGED <<signal_names, array_names, wf_metric_names, wf_data, wf_meta, fetched>>
       /\ UNCHANGED <<scan_vars, call_vars, db_vars, pure_vars>>

\* Query.get_scan_count: len(None) is a TypeError
get_scan_count ==
    /\ qret' = IF scan_meta = None
               THEN [op |-> "get_scan_count", exc |-> "TypeError", value |-> 0]
               ELSE [op |-> "get_scan_count", exc |-> "None",
                     value |-> Len(scan_meta[1].rows)]
    /\ issued' = <<>>
    /\ UNCHANGED <<signal_names, array_names, wf_metric_names,
                   staged, scan_meta, wf_data, wf_meta, fetched>>
    /\ UNCHANGED <<scan_vars, call_vars, db_vars, pure_vars>>

\* no guard
RunAlways == TRUE

\* the guard of line 341
RunAllowed == staged

\* every scan id, staged or not
RunAllSids == [i \in 1..MaxScans |-> i]

\* the scan ids run() passes to both bulk queries (lines 345 and 349)
RunSids == SidList(scan_meta[1])

\* Query.run
run ==
    /\ UNCHANGED <<signal_names, array_names, wf_metric_names, staged, scan_meta>>
    /\ UNCHANGED <<scan_vars, call_vars, db_vars, pure_vars>>
    /\ IF ~RunAllowed
       THEN /\ qret' = [op |-> "run", exc |-> "RuntimeError", value |-> 0]
            /\ issued' = <<>>
            /\ UNCHANGED <<wf_data, wf_meta, fetched>>
       ELSE IF scan_meta = None
       THEN \* None has no attribute sid
            /\ qret' = [op |-> "run", exc |-> "AttributeError", value |-> 0]
            /\ issued' = <<>>
            /\ UNCHANGED <<wf_data, wf_meta, fetched>>
       ELSE IF "sid" \notin scan_meta[1].columns
       THEN \* a frame without rows has no column sid
            /\ qret' = [op |-> "run", exc |-> "AttributeError", value |-> 0]
            /\ issued' = <<>>
            /\ UNCHANGED <<wf_data, wf_meta, fetched>>
       ELSE LET q1(rows) == DbCall("query_waveform_data", RunSids, signal_names,
                                   array_names, rows)
                q2(rows) == DbCall("query_waveform_metadata", RunSids, signal_names,
                                   wf_metric_names, rows)
            IN \/ \* query_waveform_data raises
                  /\ qret' = [op |-> "run", exc |-> "Error:query_waveform_data",
                              value |-> 0]
                  /\ issued' = <<q1(<<>>)>>
                  /\ UNCHANGED <<wf_data, wf_meta, fetched>>
               \/ \* query_waveform_metadata raises
                  \E rows \in WaveformRowLists(RunSids) :
                  /\ wf_data' = Some(DataFrame(rows))
                  /\ fetched' = [fetched EXCEPT !.data = Some(RunSids)]
                  /\ qret' = [op |-> "run", exc |-> "Error:query_waveform_metadata",
                              value |-> 0]
                  /\ issued' = <<q1(rows), q2(<<>>)>>
                  /\ UNCHANGED wf_meta
               \/ \E rows \in WaveformRowLists(RunSids),
                     mrows \in WaveformRowLists(RunSids) :
                  /\ wf_data' = Some(DataFrame(rows))
                  /\ wf_meta' = Some(DataFrame(mrows))
                  /\ fetched' = [data |-> Some(RunSids), meta |-> Some(RunSids)]
                  /\ qret' = [op |-> "run", exc |-> "None", value |-> 0]
                  /\ issued' = <<q1(rows), q2(mrows)>>

QueryNext == stage \/ get_scan_count \/ run

QueryStart ==
    /\ ScanInit /\ CallInit /\ DbInit
    /\ AnalyzeInit(Wave, 5000)
    /\ FrequencyInit(5000, SampleLength)
    /\ \/ QueryInit(<<"GMES">>, None, None)
       \/ QueryInit(<<"GMES", "PMES">>, Some(<<"raw">>), Some(<<"mean">>))

QuerySpec == QueryStart /\ [][QueryNext]_vars

\* ---- a Scan is filled, then inserted (and inserted again after a failure):
\* add_* calls are explored before the first insert_data call only
SampleCavityData ==
    { << << <<"Time", TimeAxis>>, <<"GMES", Wave>> >>, 5000 >>,
      << << <<"GMES", Wave>>, <<"PMES", Wave>> >>, 10000 >>,
      << << <<"GMES", Wave>>, <<"PMES", Short>> >>, 5000 >>,
      << << <<"PMES", WaveList>> >>, 10000 >> }
SampleFloatData == { <<>>, << <<"A", 1>> >> }
SampleStrData == { <<>>, << <<"B", "x">> >>, << <<"A", "y">> >> }

Filling == calls = 0

Next ==
    \/ \E f \in SampleFloatData, s \in SampleStrData :
          Filling /\ add_scan_data(f, s)
    \/ \E c \in Cavities, d \in SampleCavityData :
          Filling /\ add_cavity_data(c, d[1], d[2])
    \/ insert_data_begin
    \/ insert_scan
    \/ insert_waveform
    \/ insert_waveform_adata
    \/ insert_waveform_sdata
    \/ insert_scan_fdata
    \/ insert_scan_sdata
    \/ insert_commit
    \/ insert_except

Spec == Init /\ [][Next]_vars

----------------------------------------------------------------------------
\* Properties of insert_data (specification Spec)

\* the positions of the log that hold a statement op (on table t, if t # "")
LogAt(op, t) ==
    {i \in DOMAIN log : log[i].op = op /\ (t = "" \/ log[i].table = t)}
Sent(op, t) == Cardinality(LogAt(op, t))
Done(t) == Cardinality({i \in LogAt("insert", t) : log[i].ok})

\* insert_data has returned / has raised
Returned == pc = "idle" /\ ret.op = "insert_data" /\ ret.exc = "None"
Raised == pc = "idle" /\ ret.op = "insert_data" /\ ret.exc # "None"

\* the keys the last (or current) insert_data call generated
SidsOfCall == IF Done("scan") > 0 THEN {next_sid - 1} ELSE {}
WidsOfCall == (next_wid - Done("waveform")) .. (next_wid - 1)

\* no row of db carries a key generated by the last call
NoRowOfCall(db) ==
    /\ \A r \in db.scan : r.sid \notin SidsOfCall
    /\ \A r \in db.waveform : r.sid \notin SidsOfCall /\ r.wid \notin WidsOfCall
    /\ \A r \in db.waveform_adata : r.wid \notin WidsOfCall
    /\ \A r \in db.waveform_sdata : r.wid \notin WidsOfCall
    /\ \A r \in db.scan_fdata : r.sid \notin SidsOfCall
    /\ \A r \in db.scan_sdata : r.sid \notin SidsOfCall

\* C1: when insert_data raises, whichever statement failed (the cursor, the
\* scan row, a waveform, array or scalar insert, a scan-metadata insert, the
\* commit), rollback was called on the connection after the last statement
\* and before the error reached the caller, no row is left in the
\* transaction, and the committed tables hold no row of this call.
C1_RollbackBeforeRaise ==
    Raised =>
        /\ Sent("rollback", "") = 1
        /\ \A i \in LogAt("rollback", "") :
              \A j \in DOMAIN log :
                 /\ (log[j].op \in {"cursor", "insert", "select", "commit"} => j < i)
                 /\ (j > i => log[j].op = "close")
        /\ pending = EmptyDb
        /\ NoRowOfCall(committed)

\* the second waveform's insert failed after a first waveform went in whole
C1_SecondWaveformFails ==
    /\ Raised
    /\ ret.exc = "Error:waveform"
    /\ Done("waveform") = 1
    /\ Done("waveform_sdata") = 1
    /\ \E i \in LogAt("insert", "waveform") : ~log[i].ok
    /\ Sent("rollback", "") = 1

\* C2, as stated: after insert_data returns without error on a Scan whose
\* id was None, the Scan's id is the generated scan id.
C2_IdIsGeneratedId ==
    Returned => id = Some(sid)

\* C2, amended: insert_data assigns nothing to the Scan's id; a Scan built
\* with id None has id None in every state, also after insert_data returned
\* with its rows committed.
C2_IdStaysNone ==
    id = None

\* insert_data returned, its scan row is committed, and id is still None
C2_CommittedWithoutId ==
    /\ Returned
    /\ [sid |-> sid] \in committed.scan
    /\ id = None

\* the (cavity, signal) pairs of the Scan other than "Time"
NonTimePairs ==
    {p \in Keys(waveform_data) \X Signals :
        p[2] # "Time" /\ Has(Get(waveform_data, p[1]), p[2])}

\* C3: after a successful insert_data the committed tables hold the scan row
\* of the generated id; for every (cavity, signal) pair other than "Time"
\* exactly one waveform row with that id and the cavity's sampling rate, and
\* no other waveform row with that id (none for "Time"); for each of these
\* waveform rows, under its own wid, one array row "raw" with the raw
\* waveform and one per derived array name (2 in all), and one scalar row
\* per metric (10 in all); no array or scalar row without its waveform.
C3_RowsOfScan ==
    Returned =>
        LET wfs == {w \in committed.waveform : w.sid = sid}
            adata(w) == {a \in committed.waveform_adata : a.wid = w.wid}
            sdata(w) == {a \in committed.waveform_sdata : a.wid = w.wid}
        IN /\ Cardinality({r \in committed.scan : r.sid = sid}) = 1
           /\ \A p \in NonTimePairs :
                 /\ Cardinality({w \in wfs : w.cavity = p[1] /\ w.signal_name = p[2]}) = 1
                 /\ \A w \in wfs :
                       w.cavity = p[1] => w.sample_rate_hz = Get(sampling_rate, p[1])
           /\ \A w \in wfs :
                 /\ <<w.cavity, w.signal_name>> \in NonTimePairs
                 /\ \A v \in committed.waveform : v.wid = w.wid => v = w
                 /\ Cardinality(adata(w)) = 2
                 /\ {a.name : a \in adata(w)} = {"raw", "power_spectrum"}
                 /\ \A a \in adata(w) :
                       a.name = "raw" =>
                          a.data = ToJson(Get(Get(waveform_data, w.cavity), w.signal_name))
                 /\ Cardinality(sdata(w)) = 10
                 /\ {a.name : a \in sdata(w)} = Range(Metrics)
           /\ \A a \in committed.waveform_adata :
                 \E w \in committed.waveform : w.wid = a.wid
           /\ \A a \in committed.waveform_sdata :
                 \E w \in committed.waveform : w.wid = a.wid

\* a Scan of two cavities with different rates, three signals and a "Time"
\* axis was inserted
C3_ThreeWaveformsCommitted ==
    /\ Returned
    /\ Cardinality({w \in committed.waveform : w.sid = sid}) = 3
    /\ \E c \in Keys(waveform_data) : Has(Get(waveform_data, c), "Time")
    /\ \E v, w \in committed.waveform : v.sample_rate_hz # w.sample_rate_hz

\* C4: in the statements of one insert_data call, commit appears at most
\* once, nothing is sent after it, every statement before it succeeded, and
\* before it came the scan row, a waveform row with its array rows and its
\* scalar rows for every non-"Time" signal, and the insert of each non-empty
\* scan-metadata map.
C4_CommitLast ==
    /\ Sent("commit", "") <= 1
    /\ \A i \in LogAt("commit", "") :
          /\ \A j \in DOMAIN log :
                /\ (j < i => log[j].ok)
                /\ (j > i => log[j].op \in {"rollback", "close"})
          /\ Done("scan") = 1
          /\ Done("waveform") = Cardinality(NonTimePairs)
          /\ Done("waveform_adata") = Cardinality(NonTimePairs)
          /\ Done("waveform_sdata") = Cardinality(NonTimePairs)
          /\ Done("scan_fdata") = (IF scan_data_float = <<>> THEN 0 ELSE 1)
          /\ Done("scan_sdata") = (IF scan_data_str = <<>> THEN 0 ELSE 1)

\* a commit was sent after two waveforms and both metadata inserts
C4_CommitAfterEverything ==
    /\ Sent("commit", "") = 1
    /\ Done("waveform_sdata") >= 2
    /\ Done("scan_fdata") = 1
    /\ Done("scan_sdata") = 1

----------------------------------------------------------------------------
\* Properties of Query (specification QuerySpec)

\* C5: a run() on a Query that is not staged raises the usage error
\* (RuntimeError), sends no query to db, and leaves staged, scan_meta,
\* wf_data and wf_meta as they were.
C5_RunBeforeStage ==
    [][(qret'.op = "run" /\ ~staged) =>
          /\ qret'.exc = "RuntimeError"
          /\ issued' = <<>>
          /\ UNCHANGED <<staged, scan_meta, wf_data, wf_meta>>]_vars

\* run() was refused on an unstaged Query
C5_RunRefused ==
    /\ qret.op = "run"
    /\ qret.exc = "RuntimeError"
    /\ ~staged
    /\ scan_meta = None
    /\ wf_data = None

\* C6: after every successful stage() the Query is staged and scan_meta
\* holds exactly the rows that call's query_scan_rows returned; nothing but
\* a successful stage() changes scan_meta; get_scan_count() returns the
\* number of rows of scan_meta once staged, and raises before.
C6_StageReplaces ==
    /\ []((qret.op = "stage" /\ qret.exc = "None") =>
             /\ staged
             /\ scan_meta = Some(DataFrame(issued[1].rows)))
    /\ [](qret.op = "get_scan_count" =>
             IF staged
             THEN qret.exc = "None" /\ qret.value = Len(scan_meta[1].rows)
             ELSE qret.exc # "None")
    /\ [][scan_meta' # scan_meta => (qret'.op = "stage" /\ qret'.exc = "None")]_vars

\* a stage() that returned no row replaced the metadata of an earlier
\* stage() (one with rows, as a run() fetched waveforms for them)
C6_Restaged ==
    /\ qret.op = "stage"
    /\ qret.exc = "None"
    /\ wf_data # None
    /\ scan_meta = Some(DataFrame(<<>>))

\* C7: every bulk query of run() is sent with the sid values of the current
\* scan_meta, in their order, with the Query's signal names and its array
\* names (data) or metric names (metadata); a run() that returns has sent
\* both, and wf_data and wf_meta hold the rows they returned, all of staged
\* scans.
C7_RunUsesStagedIds ==
    qret.op = "run" =>
        /\ \A i \in DOMAIN issued :
              /\ issued[i].sids = [k \in DOMAIN scan_meta[1].rows |-> scan_meta[1].rows[k].sid]
              /\ issued[i].signal_names = signal_names
              /\ issued[i].fn = "query_waveform_data" => issued[i].names = array_names
              /\ issued[i].fn = "query_waveform_metadata" =>
                    issued[i].names = wf_metric_names
        /\ qret.exc = "None" =>
              /\ Len(issued) = 2
              /\ issued[1].fn = "query_waveform_data"
              /\ issued[2].fn = "query_waveform_metadata"
              /\ wf_data = Some(DataFrame(issued[1].rows))
              /\ wf_meta = Some(DataFrame(issued[2].rows))
              /\ \A r \in Range(wf_data[1].rows) \cup Range(wf_meta[1].rows) :
                    \E m \in Range(scan_meta[1].rows) : m.sid = r.sid

\* run() returned for a staged set of one scan, with waveform rows for it
C7_RunForOneScan ==
    /\ qret.op = "run"
    /\ qret.exc = "None"
    /\ Len(scan_meta[1].rows) = 1
    /\ wf_data[1].rows # <<>>

----------------------------------------------------------------------------
\* Properties of add_scan_data (specification MetaSpec)

\* C8, as stated: no name is a key of both scan_data_float and
\* scan_data_str.
C8_MetaDisjoint ==
    Keys(scan_data_float) \cap Keys(scan_data_str) = {}

\* C9: add_scan_data(float_data, str_data) raises ValueError and changes
\* neither map when the two arguments share a key; otherwise it returns, and
\* then every key of float_data has its value in scan_data_float and every
\* key of str_data its value in scan_data_str, whatever they held before;
\* the keys it was not given keep their values.
C9_AddScanData ==
    [][\A f \in FloatDicts, s \in StrDicts :
          add_scan_data(f, s) =>
             IF Keys(f) \cap Keys(s) # {}
             THEN /\ ret'.exc = "ValueError"
                  /\ UNCHANGED <<scan_data_float, scan_data_str>>
             ELSE /\ ret'.exc = "None"
                  /\ \A k \in Keys(f) :
                        Has(scan_data_float', k) /\ Get(scan_data_float', k) = Get(f, k)
                  /\ \A k \in Keys(s) :
                        Has(scan_data_str', k) /\ Get(scan_data_str', k) = Get(s, k)
                  /\ \A k \in Keys(scan_data_float) \ Keys(f) :
                        Has(scan_data_float', k)
                        /\ Get(scan_data_float', k) = Get(scan_data_float, k)
                  /\ \A k \in Keys(scan_data_str) \ Keys(s) :
                        Has(scan_data_str', k)
                        /\ Get(scan_data_str', k) = Get(scan_data_str, k)
                  /\ Keys(scan_data_float') = Keys(scan_data_float) \cup Keys(f)
                  /\ Keys(scan_data_str') = Keys(scan_data_str) \cup Keys(s)]_vars

\* a call was refused for a shared key while both maps held data
C9_RefusedWithData ==
    /\ ret.op = "add_scan_data"
    /\ ret.exc = "ValueError"
    /\ scan_data_float # <<>>
    /\ scan_data_str # <<>>

----------------------------------------------------------------------------
\* Properties of add_cavity_data (specification CavitySpec)

\* C10, as stated: every signal other than "Time" of every cavity of
\* waveform_data has an entry in analysis_scalar and in analysis_array, and
\* the analysis maps have no entry for "Time" or for a signal that
\* waveform_data lacks.
C10_AnalysisComplete ==
    /\ Keys(analysis_scalar) = Keys(waveform_data)
    /\ Keys(analysis_array) = Keys(waveform_data)
    /\ \A c \in Keys(waveform_data) :
          /\ Keys(Get(analysis_scalar, c)) = Keys(Get(waveform_data, c)) \ {"Time"}
          /\ Keys(Get(analysis_array, c)) = Keys(Get(waveform_data, c)) \ {"Time"}

----------------------------------------------------------------------------
\* Error handling and retries of insert_data (specification Spec)

\* the statement of the log that failed, if any
FailedAt == {i \in DOMAIN log : ~log[i].ok}

\* the error a failing statement raises
ErrorOf(stmt) == IF stmt.op = "insert" THEN "Error:" \o stmt.table
                                        ELSE "Error:" \o stmt.op

\* C11, as stated: validation errors are never deferred to persistence time;
\* whatever add_scan_data and add_cavity_data calls (raising ones included)
\* built the Scan, an insert_data call in which every statement sent to the
\* connection succeeded has committed and returned, it has not raised.
C11_NoDeferredError ==
    (pc = "idle" /\ ret.op = "insert_data" /\ FailedAt = {}) =>
        /\ ret.exc = "None"
        /\ Sent("commit", "") = 1

RowsComplete(db, s) ==
    /\ db.scan = {[sid |-> s]}
    /\ \A w \in db.waveform : w.sid = s
    /\ Cardinality(db.waveform) = Cardinality(NonTimePairs)
    /\ \A p \in NonTimePairs :
          \E w \in db.waveform : w.cavity = p[1] /\ w.signal_name = p[2]
    /\ \A w \in db.waveform :
          /\ Cardinality({a \in db.waveform_adata : a.wid = w.wid}) = 2
          /\ Cardinality({a \in db.waveform_sdata : a.wid = w.wid}) = 10
    /\ \A a \in db.waveform_adata : \E w \in db.waveform : w.wid = a.wid
    /\ \A a \in db.waveform_sdata : \E w \in db.waveform : w.wid = a.wid
    /\ db.scan_fdata =
          {[sid |-> s, name |-> k, value |-> Get(scan_data_float, k)] :
              k \in Keys(scan_data_float)}
    /\ db.scan_sdata =
          {[sid |-> s, name |-> k, value |-> Get(scan_data_str, k)] :
              k \in Keys(scan_data_str)}

\* C13: when insert_data succeeds for the first time on a connection,
\* whatever number of calls failed before it, the committed database holds
\* exactly the rows of this attempt: one scan row, with the id generated in
\* this attempt, its waveform, array, scalar and metadata rows, and no row
\* or scan id of a failed attempt.
C13_RetryLeavesOneScan ==
    [][(pc = "commit" /\ pc' = "idle" /\ ret'.exc = "None"
        /\ committed = EmptyDb)
       => /\ RowsComplete(committed', sid)
          /\ sid = next_sid - 1]_vars

\* insert_data failed after its scan row was inserted, and the next call on
\* the same Scan and connection succeeded
C13_SucceededOnRetry ==
    /\ Returned
    /\ calls = 2
    /\ sid = 2
    /\ Cardinality(committed.scan) = 1
    /\ Cardinality(committed.waveform) = 3

\* C14: insert_data sends no insert for scan_fdata when scan_data_float is
\* empty and none for scan_sdata when scan_data_str is empty; no insert it
\* sends carries zero rows; and after a successful call the metadata tables
\* hold, under the generated scan id, exactly one row per key of each map.
C14_NoEmptyInsert ==
    (pc # "idle" \/ ret.op = "insert_data") =>
        /\ scan_data_float = <<>> => Sent("insert", "scan_fdata") = 0
        /\ scan_data_str = <<>> => Sent("insert", "scan_sdata") = 0
        /\ \A i \in LogAt("insert", "") : log[i].n > 0
        /\ \A i \in LogAt("insert", "scan_fdata") : log[i].n = Len(scan_data_float)
        /\ \A i \in LogAt("insert", "scan_sdata") : log[i].n = Len(scan_data_str)
        /\ Returned =>
              /\ Cardinality({r \in committed.scan_fdata : r.sid = sid})
                    = Len(scan_data_float)
              /\ Cardinality({r \in committed.scan_sdata : r.sid = sid})
                    = Len(scan_data_str)
              /\ \A k \in Keys(scan_data_float) :
                    [sid |-> sid, name |-> k, value |-> Get(scan_data_float, k)]
                        \in committed.scan_fdata
              /\ \A k \in Keys(scan_data_str) :
                    [sid |-> sid, name |-> k, value |-> Get(scan_data_str, k)]
                        \in committed.scan_sdata

\* a Scan with string metadata and no float metadata was inserted: one
\* metadata statement was sent, not two
C14_OnlyStringMetadata ==
    /\ Returned
    /\ scan_data_float = <<>>
    /\ Len(scan_data_str) = 1
    /\ Sent("insert", "scan_sdata") = 1
    /\ Sent("insert", "scan_fdata") = 0
    /\ Cardinality(committed.scan_sdata) = 1

----------------------------------------------------------------------------
\* Re-adding a cavity (specification CavitySpec)

\* the smallest sample of a signal
LeastSample(arr) ==
    CHOOSE v \in {r[1] : r \in Range(arr.runs)} :
        \A w \in {r[1] : r \in Range(arr.runs)} : v <= w

\* C15: a successful add_cavity_data(cavity, data, sampling_rate) for a
\* cavity the Scan already holds replaces the cavity's raw signals, sampling
\* rate and analysis results: waveform_data holds data and nothing else for
\* it, the analysis maps hold the signals of data other than "Time" and no
\* signal of the earlier call, analysed from the new samples at the new rate;
\* every other cavity's entries and both metadata maps stay as they were.
C15_ReaddReplaces ==
    [][(ret'.op = "add_cavity_data" /\ ret'.exc = "None"
        /\ Has(waveform_data, added'[1]))
       => LET c == added'[1]
              data == added'[2]
              rate == added'[3]
          IN /\ Get(waveform_data', c) = data
             /\ Get(sampling_rate', c) = rate
             /\ Keys(Get(analysis_scalar', c)) = Keys(data) \ {"Time"}
             /\ Keys(Get(analysis_array', c)) = Keys(data) \ {"Time"}
             /\ \A s \in Keys(data) \ {"Time"} :
                   LET sc == Get(Get(analysis_scalar', c), s)
                       ar == Get(Get(analysis_array', c), s)
                   IN /\ Get(sc, "minimum").n = LeastSample(Get(data, s))
                      /\ Get(sc, "dominant_frequency").fs = rate
                      /\ Get(ar, "power_spectrum").fs = rate
                      /\ Get(ar, "power_spectrum").runs = Get(data, s).runs
             /\ KeySeq(waveform_data') = KeySeq(waveform_data)
             /\ KeySeq(sampling_rate') = KeySeq(sampling_rate)
             /\ KeySeq(analysis_scalar') = KeySeq(analysis_scalar)
             /\ KeySeq(analysis_array') = KeySeq(analysis_array)
             /\ \A o \in Keys(waveform_data) \ {c} :
                   /\ Get(waveform_data', o) = Get(waveform_data, o)
                   /\ Get(sampling_rate', o) = Get(sampling_rate, o)
                   /\ Get(analysis_scalar', o) = Get(analysis_scalar, o)
                   /\ Get(analysis_array', o) = Get(analysis_array, o)
             /\ UNCHANGED <<scan_data_float, scan_data_str>>]_vars

\* cavity c1, added with GMES and PMES at 5000 Hz, was added again with a time
\* axis and GMES only at 10000 Hz, while c2 holds data of its own
C15_ReaddedWithFewerSignals ==
    /\ ret.op = "add_cavity_data"
    /\ ret.exc = "None"
    /\ added # <<>>
    /\ added[1] = "c1"
    /\ KeySeq(added[2]) = <<"Time", "GMES">>
    /\ added[3] = 10000
    /\ KeySeq(waveform_data) = <<"c1", "c2">>
    /\ Keys(Get(analysis_scalar, "c1")) = {"GMES"}
    /\ Keys(Get(analysis_scalar, "c2")) = {"GMES", "PMES"}
    /\ Get(sampling_rate, "c2") = 5000

----------------------------------------------------------------------------
\* analyze_signal (specification AnalyzeSpec)

\* C16: analyze_signal raises TypeError, and returns nothing, for an input
\* that is not a list, tuple or array; it raises ValueError, and returns
\* nothing, for non-numeric elements and for every length other than 8192;
\* for 8192 numeric samples it returns the ten named scalars, with minimum
\* and maximum the least and greatest sample and peak_to_peak their
\* difference, and one array, power_spectrum.
C16_AnalyzeSignal ==
    sig_out # None =>
        LET a == sig_in.arr
            out == sig_out[1]
            samples == {r[1] : r \in Range(a.runs)}
            nothing == out.scalars = <<>> /\ out.arrays = <<>>
            least == Get(out.scalars, "minimum").n
            greatest == Get(out.scalars, "maximum").n
        IN IF a.type \notin {"list", "tuple", "ndarray"}
           THEN out.exc = "TypeError" /\ nothing
           ELSE IF a.dtype # "number" \/ RunsLen(a.runs) # 8192
           THEN out.exc = "ValueError" /\ nothing
           ELSE /\ out.exc = "None"
                /\ Len(out.scalars) = 10
                /\ Keys(out.scalars) =
                      {"minimum", "maximum", "peak_to_peak", "mean", "median",
                       "standard_deviation", "rms", "25th_quartile",
                       "75th_quartile", "dominant_frequency"}
                /\ least \in samples /\ greatest \in samples
                /\ \A v \in samples : least <= v /\ v <= greatest
                /\ Get(out.scalars, "peak_to_peak").n = greatest - least
                /\ KeySeq(out.arrays) = <<"power_spectrum">>

\* a tuple of 4096 samples of -1 and 4096 samples of 3 was analysed: its
\* peak_to_peak is 4
C16_TupleAnalysed ==
    /\ sig_out # None
    /\ sig_in.arr.type = "tuple"
    /\ sig_in.arr.runs = << <<-1, 4096>>, <<3, 4096>> >>
    /\ sig_out[1].exc = "None"
    /\ Get(sig_out[1].scalars, "peak_to_peak").n = 4

----------------------------------------------------------------------------
\* get_frequency_range (specification FrequencySpec)

----------------------------------------------------------------------------
\* The states of a Query (specification QuerySpec)

\* C18: in every state reached by stage(), run() and get_scan_count() calls,
\* failing queries included, staged is true exactly when scan_meta is not
\* None; staged never goes back from true to false; and wf_data or wf_meta
\* is populated only if the Query is staged.
C18_StagedStates ==
    /\ [](staged <=> scan_meta # None)
    /\ [][staged => staged']_vars
    /\ []((wf_data # None \/ wf_meta # None) => staged)

\* a stage() whose query failed, on a Query that was staged and run before
C18_FailedRestage ==
    /\ qret.op = "stage"
    /\ qret.exc = "Error:query_scan_rows"
    /\ staged
    /\ scan_meta # None
    /\ wf_data # None
    /\ wf_meta # None

\* C19, as stated: whenever wf_data and wf_meta are populated, the scan ids
\* they were fetched for are the scan ids of the current scan_meta, also
\* after a stage() that follows a run().
C19_ResultsMatchStaged ==
    (wf_data # None /\ wf_meta # None) =>
        /\ scan_meta # None
        /\ fetched.data = Some(SidList(scan_meta[1]))
        /\ fetched.meta = Some(SidList(scan_meta[1]))

\* C20, as stated: a run() that raises, whichever of its queries failed,
\* leaves wf_data and wf_meta as they were before the call.
C20_RunAllOrNothing ==
    [][(qret'.op = "run" /\ qret'.exc # "None")
       => UNCHANGED <<wf_data, wf_meta>>]_vars

====
